---------------------------- MODULE Spec2Model ----------------------------
(***************************************************************************)
(* Entropy-coding engine of EET51_Lab3: the Golomb-Rice codecs (packed     *)
(* unsigned codec of lib.rs, signed codecs of custom_encode.rs and         *)
(* golomb/encode.rs), the Huffman tree builder of huffman_encode.rs and    *)
(* the Histogram of histogram.rs.                                          *)
(*                                                                         *)
(* Every codec is a pure function of its input; it is modelled by an       *)
(* operator that follows the loops of the Rust code, and each              *)
(* specification draws the inputs in Init and applies the functions in     *)
(* its actions.                                                            *)
(***************************************************************************)
EXTENDS Integers, Sequences, FiniteSets, TLC

VARIABLES
    pc,         \* position in the scenario being run
    m,          \* the Golomb parameter (u8)
    data,       \* &[u8] input of golomb_encode_inner
    encoded,    \* Vec<u8> of packed bytes (lib.rs)
    decoded,    \* outcome of golomb_decode
    pixels,     \* &[CustomPixel] input of custom_encode_inner
    cbits,      \* Vec<u8> of 0/1 values (custom_encode.rs, golomb/encode.rs)
    cdecoded,   \* outcome of custom_decode (custom_encode.rs)
    mdecoded,   \* outcome of custom_decode (golomb/encode.rs)
    hdata,      \* &[u8] input of huffman_encode
    frequencies,\* BTreeMap<u8, u32> of build_histogram
    heap,       \* BinaryHeap<(Reverse<u32>, HuffmanNode<u8>)> of build_huffman_tree
    tree,       \* the root returned by build_huffman_tree
    code_map,   \* HashMap<u8, Vec<u8>> filled by generate_codes
    result,     \* Vec<u8> of 0/1 values returned by huffman_encode
    code_len,   \* code.len() of every symbol of the code map
    counts,     \* Histogram.counts: HashMap<T, usize>
    total_count,\* Histogram.total_count
    adds,       \* number of Histogram::add calls made on the histogram so far
    last,       \* the last operation applied to the histogram
    runs,       \* input of golomb_encode / custom_encode, as runs of equal pixels
    csv,        \* the data rows written by Histogram::to_csv
    matrix,     \* &Array2<i32> input of custom_encode (golomb/encode.rs)
    encoded_image,      \* the CustomGolombEncodedImage it returns
    original_image,     \* GrayImage input of prediction_err_matrix
    pred_err,           \* Array2<i32> returned by prediction_err_matrix
    reconstructed_image \* outcome of reconstruct_image_from_pred_err_matrix

golombVars == <<m, data, encoded, decoded, pixels, cbits, cdecoded, mdecoded>>
huffVars == <<hdata, frequencies, heap, tree, code_map, result, code_len>>
histVars == <<counts, total_count, adds, last>>
extVars == <<runs, csv, matrix, encoded_image, original_image, pred_err,
             reconstructed_image>>
vars == <<pc, golombVars, huffVars, histVars, extVars>>

-----------------------------------------------------------------------------
(* Bounds of the model *)

\* longest input sequence of the Golomb round-trip scenarios
MaxLen == 4
\* longest run of quotient zeros of one codeword (n / m) in those scenarios
MaxQuot == 8
\* longest pixel sequence of the signed round-trip scenario
MaxPixels == 3
\* largest number of rows and of columns of a matrix
MaxDim == 2
\* longest Huffman input
MaxText == 6
\* largest number of add calls made on one histogram
MaxAdds == 6
\* longest iterator handed to Histogram::from_iter
MaxIter == 3
\* longest raw bit buffer handed to pack_bits and to the decoders
MaxBits == 9

\* the magnitudes the inputs are drawn from (u8 values)
Magnitudes == {0, 1, 21, 255}
\* the valid parameters: the powers of two that fit the u8 m
PowersOfTwo == {1, 2, 4, 8, 16, 32, 64, 128}

-----------------------------------------------------------------------------
(* u8 arithmetic *)

RECURSIVE Pow2(_)
Pow2(n) == IF n = 0 THEN 1 ELSE 2 * Pow2(n - 1)

\* x << n on a u8 (bits shifted out are lost)
Shl8(x, n) == (x * Pow2(n)) % 256
\* x >> n
Shr(x, n) == x \div Pow2(n)

\* x | y on u8, bit by bit
RECURSIVE Or8(_, _)
Or8(x, y) ==
    IF x = 0 THEN y
    ELSE IF y = 0 THEN x
    ELSE 2 * Or8(x \div 2, y \div 2) + (IF x % 2 = 1 \/ y % 2 = 1 THEN 1 ELSE 0)

\* x & 1
And1(x) == x % 2

\* let mut b = 0; while (1 << b) < m { b += 1; }
RECURSIVE LogLoop(_, _)
LogLoop(mm, b) == IF Pow2(b) < mm THEN LogLoop(mm, b + 1) ELSE b
Log2Of(mm) == LogLoop(mm, 0)

\* all sequences over S of length at most n
SeqsUpTo(S, n) == UNION {[1..k -> S] : k \in 0..n}

-----------------------------------------------------------------------------
(* lib.rs: golomb_encode_inner and pack_bits *)

\* encoded_bits.resize(len + q, 0)
Zeros(q) == [i \in 1..q |-> 0]

\* PushBits with the remainder pushed least-significant bit first
RECURSIVE PushBitsLsbFirst(_, _, _, _)
PushBitsLsbFirst(bits, r, i, top) ==
    IF i > top THEN bits
    ELSE PushBitsLsbFirst(Append(bits, And1(Shr(r, i))), r, i + 1, top)
PushBitsReversed(bits, r, i) == PushBitsLsbFirst(bits, r, 0, i)

\* for i in (0..b).rev() { encoded_bits.push((r >> i) & 1); }
RECURSIVE PushBits(_, _, _)
PushBits(bits, r, i) ==
    IF i < 0 THEN bits
    ELSE PushBits(Append(bits, And1(Shr(r, i))), r, i - 1)

\* the body of the encoder loop for one value n: quotient in unary, a 1, and
\* the remainder (b bits when r < m, else b + 1 bits of r + m)
GolombCodeword(bits, n, mm, b) ==
    LET q == n \div mm
        r == n % mm
        unary == Append(bits \o Zeros(q), 1)
    IN  IF r < mm THEN PushBits(unary, r, b - 1)
        ELSE PushBits(unary, r + mm, b)

RECURSIVE GolombBitsLoop(_, _, _, _, _)
GolombBitsLoop(d, k, mm, b, bits) ==
    IF k > Len(d) THEN bits
    ELSE GolombBitsLoop(d, k + 1, mm, b, GolombCodeword(bits, d[k], mm, b))

\* the unpacked bit vector golomb_encode_inner hands to pack_bits
GolombBits(d, mm) == GolombBitsLoop(d, 1, mm, Log2Of(mm), <<>>)

\* the loop of pack_bits, then the padding of the last partial byte
RECURSIVE PackLoop(_, _, _, _, _)
PackLoop(bits, k, current_byte, bit_count, packed_bytes) ==
    IF k > Len(bits)
    THEN IF bit_count # 0
         THEN Append(packed_bytes, Shl8(current_byte, 8 - bit_count))
         ELSE packed_bytes
    ELSE LET cb == Or8(Shl8(current_byte, 1), bits[k])
         IN  IF bit_count + 1 = 8
             THEN PackLoop(bits, k + 1, 0, 0, Append(packed_bytes, cb))
             ELSE PackLoop(bits, k + 1, cb, bit_count + 1, packed_bytes)

\* pack_bits pushing the last partial byte without the padding shift
RECURSIVE PackLoopNoPad(_, _, _, _, _)
PackLoopNoPad(bits, k, current_byte, bit_count, packed_bytes) ==
    IF k > Len(bits)
    THEN IF bit_count # 0 THEN Append(packed_bytes, current_byte) ELSE packed_bytes
    ELSE LET cb == Or8(Shl8(current_byte, 1), bits[k])
         IN  IF bit_count + 1 = 8
             THEN PackLoopNoPad(bits, k + 1, 0, 0, Append(packed_bytes, cb))
             ELSE PackLoopNoPad(bits, k + 1, cb, bit_count + 1, packed_bytes)
pack_bits_NoPad(bits) == PackLoopNoPad(bits, 1, 0, 0, <<>>)

pack_bits(bits) == PackLoop(bits, 1, 0, 0, <<>>)

golomb_encode_inner(d, mm) == pack_bits(GolombBits(d, mm))

-----------------------------------------------------------------------------
(* lib.rs: golomb_decode *)

\* data[bit_index / 8] & (1 << (7 - (bit_index % 8))) != 0
BitSet(buf, bit_index) ==
    And1(Shr(buf[(bit_index \div 8) + 1], 7 - (bit_index % 8))) = 1

\* The outcome of a decoder: the values pushed so far and how the call ended:
\*   "ok"        the outer loop ran to the end of the buffer
\*   "eof_unary" return decoded_bits inside the quotient loop
\*   "eof_rem"   return decoded_bits inside the remainder loop
\*   "oob"       an index >= the buffer length was used (index panic); idx is it
\*   "overflow"  u8 arithmetic overflowed in a build with overflow checks
Outcome(out, end, idx) == [out |-> out, end |-> end, idx |-> idx]

\* the quotient loop without its return at the end of the buffer: the zero
\* bits that end the buffer count as a quotient
RECURSIVE UnaryLoopNoReturn(_, _, _)
UnaryLoopNoReturn(buf, bit_index, q) ==
    IF ~BitSet(buf, bit_index)
    THEN IF bit_index + 1 >= Len(buf) * 8
         THEN [eof |-> FALSE, q |-> q + 1, bit_index |-> bit_index]
         ELSE UnaryLoopNoReturn(buf, bit_index + 1, q + 1)
    ELSE [eof |-> FALSE, q |-> q, bit_index |-> bit_index]

\* the quotient loop: scans zero bits from bit_index
RECURSIVE UnaryLoop(_, _, _)
UnaryLoop(buf, bit_index, q) ==
    IF ~BitSet(buf, bit_index)
    THEN IF bit_index + 1 >= Len(buf) * 8
         THEN [eof |-> TRUE, q |-> q + 1, bit_index |-> bit_index + 1]
         ELSE UnaryLoop(buf, bit_index + 1, q + 1)
    ELSE [eof |-> FALSE, q |-> q, bit_index |-> bit_index]

\* the remainder loop: for _ in 0..b, with k iterations left
RECURSIVE RemLoop(_, _, _, _)
RemLoop(buf, bit_index, k, r) ==
    IF k = 0 THEN [end |-> "ok", r |-> r, bit_index |-> bit_index]
    ELSE IF bit_index \div 8 >= Len(buf)
    THEN [end |-> "oob", r |-> r, bit_index |-> bit_index]
    ELSE LET r2 == IF BitSet(buf, bit_index) THEN Or8(Shl8(r, 1), 1) ELSE Shl8(r, 1)
         IN  IF bit_index + 1 >= Len(buf) * 8
             THEN [end |-> "eof_rem", r |-> r2, bit_index |-> bit_index + 1]
             ELSE RemLoop(buf, bit_index + 1, k - 1, r2)

RECURSIVE GolombDecodeLoop(_, _, _, _, _, _)
GolombDecodeLoop(chk, mm, b, buf, bit_index, out) ==
    IF ~(bit_index < Len(buf) * 8) THEN Outcome(out, "ok", bit_index)
    ELSE LET u == UnaryLoop(buf, bit_index, 0)
         IN  IF u.eof THEN Outcome(out, "eof_unary", u.bit_index)
             ELSE LET rm == RemLoop(buf, u.bit_index + 1, b, 0)
                      n  == u.q * mm + rm.r
                  IN  IF rm.end = "oob" THEN Outcome(out, "oob", rm.bit_index \div 8)
                      ELSE IF rm.end = "eof_rem" THEN Outcome(out, "eof_rem", rm.bit_index)
                      ELSE IF n > 255 /\ chk THEN Outcome(out, "overflow", rm.bit_index)
                      ELSE GolombDecodeLoop(chk, mm, b, buf, rm.bit_index,
                                            Append(out, n % 256))

golomb_decode(chk, mm, buf) == GolombDecodeLoop(chk, mm, Log2Of(mm), buf, 0, <<>>)


-----------------------------------------------------------------------------
(* custom_encode.rs: custom_encode_inner and custom_decode *)

CustomPixel(sign, value) == [sign |-> sign, value |-> value]

\* pixel.sign as u8
BoolAsU8(x) == IF x THEN 1 ELSE 0

\* the body of the encoder loop for one pixel: the sign bit, then the codeword
\* of the value
CustomCodeword(bits, pixel, mm, b) ==
    LET q == pixel.value \div mm
        r == pixel.value % mm
        unary == Append(Append(bits, BoolAsU8(pixel.sign)) \o Zeros(q), 1)
    IN  IF r < mm THEN PushBits(unary, r, b - 1)
        ELSE PushBits(unary, r + mm, b)

RECURSIVE CustomBitsLoop(_, _, _, _, _)
CustomBitsLoop(d, k, mm, b, bits) ==
    IF k > Len(d) THEN bits
    ELSE CustomBitsLoop(d, k + 1, mm, b, CustomCodeword(bits, d[k], mm, b))

custom_encode_inner(d, mm) == CustomBitsLoop(d, 1, mm, Log2Of(mm), <<>>)

\* while data[i] == 0 { q += 1; i += 1; }   (i counts from 0; no bounds test)
RECURSIVE CustomUnaryLoop(_, _, _)
CustomUnaryLoop(buf, i, q) ==
    IF i >= Len(buf) THEN [oob |-> TRUE, q |-> q, i |-> i]
    ELSE IF buf[i + 1] = 0 THEN CustomUnaryLoop(buf, i + 1, q + 1)
    ELSE [oob |-> FALSE, q |-> q, i |-> i]

\* CustomRemLoop with the shift off by one: data[i + j] << (b - j)
RECURSIVE CustomRemLoopShift(_, _, _, _, _)
CustomRemLoopShift(buf, i, b, j, r) ==
    IF j >= b THEN [oob |-> FALSE, r |-> r, i |-> i + b]
    ELSE IF i + j >= Len(buf) THEN [oob |-> TRUE, r |-> r, i |-> i + j]
    ELSE CustomRemLoopShift(buf, i, b, j + 1, Or8(r, Shl8(buf[i + j + 1], b - j)))

\* for j in 0..b { r |= data[i + j] << (b - j - 1); }
RECURSIVE CustomRemLoop(_, _, _, _, _)
CustomRemLoop(buf, i, b, j, r) ==
    IF j >= b THEN [oob |-> FALSE, r |-> r, i |-> i + b]
    ELSE IF i + j >= Len(buf) THEN [oob |-> TRUE, r |-> r, i |-> i + j]
    ELSE CustomRemLoop(buf, i, b, j + 1, Or8(r, Shl8(buf[i + j + 1], b - j - 1)))

\* The outer loop of custom_decode
RECURSIVE SignedDecodeLoop(_, _, _, _, _, _)
SignedDecodeLoop(chk, mm, b, buf, i, out) ==
    IF ~(i < Len(buf)) THEN Outcome(out, "ok", i)
    ELSE LET sign == buf[i + 1] = 1
             u    == CustomUnaryLoop(buf, i + 1, 0)
         IN  IF u.oob THEN Outcome(out, "oob", u.i)
             ELSE LET rm == CustomRemLoop(buf, u.i + 1, b, 0, 0)
                      r  == IF rm.r >= mm THEN rm.r - mm ELSE rm.r
                      n  == u.q * mm + r
                  IN  IF rm.oob THEN Outcome(out, "oob", rm.i)
                      ELSE IF n > 255 /\ chk THEN Outcome(out, "overflow", rm.i)
                      ELSE SignedDecodeLoop(chk, mm, b, buf, rm.i,
                                            Append(out, CustomPixel(sign, n % 256)))

custom_decode(chk, buf, mm) == SignedDecodeLoop(chk, mm, Log2Of(mm), buf, 0, <<>>)

-----------------------------------------------------------------------------
(* golomb/encode.rs: custom_decode of a CustomGolombEncodedImage *)

\* let v = (q * m + r) as i32; if sign { -v } else { v }
SignedValue(pixel) == IF pixel.sign THEN -pixel.value ELSE pixel.value

\* The decoding loop of golomb/encode.rs is the loop of custom_encode.rs
\* statement for statement, except that it pushes the signed i32 instead of
\* the (sign, value) pair.  It is followed by
\* Array2::from_shape_vec(shape, pixels).unwrap(): "shape" is the unwrap
\* failing because the element count is not rows * cols.
matrix_custom_decode(chk, image) ==
    LET o == SignedDecodeLoop(chk, image.m, Log2Of(image.m), image.encoded_bits, 0, <<>>)
        values == [k \in 1..Len(o.out) |-> SignedValue(o.out[k])]
    IN  IF o.end = "ok" /\ Len(values) # image.shape[1] * image.shape[2]
        THEN Outcome(values, "shape", o.idx)
        ELSE Outcome(values, o.end, o.idx)

-----------------------------------------------------------------------------
(* Scenario: main.rs Task H, encode with golomb_encode_inner, then decode *)

NoOutcome == Outcome(<<>>, "none", 0)

\* Histogram::new(): no counts, total 0
NoOp == [op |-> "new"]
HistIdle ==
    /\ counts = <<>>
    /\ total_count = 0
    /\ adds = 0
    /\ last = NoOp

\* Array2 with no rows and no columns: the shape and the elements in row-major
\* (logical) order
NoMatrix == [shape |-> <<0, 0>>, elems |-> <<>>]
\* a GrayImage of width 0
NoImage == [width |-> 0, height |-> 0, px |-> <<>>]
\* no run of the other scenarios is in progress
ExtIdle ==
    /\ runs = <<>>
    /\ csv = <<>>
    /\ matrix = NoMatrix
    /\ encoded_image = [m |-> 1, encoded_bits |-> <<>>, shape |-> <<0, 0>>]
    /\ original_image = NoImage
    /\ pred_err = NoMatrix
    /\ reconstructed_image = NoImage

\* no Huffman run is in progress
NoTree == [kind |-> "None"]
HuffIdle ==
    /\ hdata = <<>>
    /\ frequencies = <<>>
    /\ heap = {}
    /\ tree = NoTree
    /\ code_map = <<>>
    /\ result = <<>>
    /\ code_len = <<>>

InitGolomb ==
    /\ pc = "input"
    /\ m \in PowersOfTwo
    /\ data \in {d \in SeqsUpTo(Magnitudes, MaxLen) :
                    \A i \in 1..Len(d) : d[i] \div m <= MaxQuot}
    /\ encoded = <<>>
    /\ decoded = NoOutcome
    /\ pixels = <<>>
    /\ cbits = <<>>
    /\ cdecoded = NoOutcome
    /\ mdecoded = NoOutcome
    /\ HuffIdle
    /\ HistIdle
    /\ ExtIdle

GolombEncode ==
    /\ pc = "input"
    /\ encoded' = golomb_encode_inner(data, m)
    /\ pc' = "encoded"
    /\ UNCHANGED <<m, data, decoded, pixels, cbits, cdecoded, mdecoded, huffVars, histVars, extVars>>

GolombDecode ==
    /\ pc = "encoded"
    /\ \E chk \in BOOLEAN : decoded' = golomb_decode(chk, m, encoded)
    /\ pc' = "decoded"
    /\ UNCHANGED <<m, data, encoded, pixels, cbits, cdecoded, mdecoded, huffVars, histVars, extVars>>

NextGolomb == GolombEncode \/ GolombDecode

SpecGolomb == InitGolomb /\ [][NextGolomb]_vars

-----------------------------------------------------------------------------
(* Scenario: custom_encode_inner of a pixel sequence, then custom_decode *)

Pixels == {CustomPixel(sg, v) : sg \in BOOLEAN, v \in Magnitudes}

InitCustom ==
    /\ pc = "input"
    /\ m \in PowersOfTwo
    /\ pixels \in {d \in SeqsUpTo(Pixels, MaxPixels) :
                      \A i \in 1..Len(d) : d[i].value \div m <= MaxQuot}
    /\ data = <<>>
    /\ encoded = <<>>
    /\ decoded = NoOutcome
    /\ cbits = <<>>
    /\ cdecoded = NoOutcome
    /\ mdecoded = NoOutcome
    /\ HuffIdle
    /\ HistIdle
    /\ ExtIdle

CustomEncode ==
    /\ pc = "input"
    /\ cbits' = custom_encode_inner(pixels, m)
    /\ pc' = "encoded"
    /\ UNCHANGED <<m, data, encoded, decoded, pixels, cdecoded, mdecoded, huffVars, histVars, extVars>>

CustomDecode ==
    /\ pc = "encoded"
    /\ \E chk \in BOOLEAN : cdecoded' = custom_decode(chk, cbits, m)
    /\ pc' = "decoded"
    /\ UNCHANGED <<m, data, encoded, decoded, pixels, cbits, mdecoded, huffVars, histVars, extVars>>

NextCustom == CustomEncode \/ CustomDecode

SpecCustom == InitCustom /\ [][NextCustom]_vars

-----------------------------------------------------------------------------
(* Scenario: an arbitrary bit buffer is packed by pack_bits and the packed  *)
(* bytes are decoded by golomb_decode, or the bit buffer itself is decoded  *)
(* by one of the two custom_decode functions.                               *)

Shapes == {<<rows, cols>> : rows \in 0..MaxDim, cols \in 0..MaxDim}

InitRaw ==
    /\ pc = "raw"
    /\ m \in PowersOfTwo
    /\ cbits \in SeqsUpTo({0, 1}, MaxBits)
    /\ data = <<>>
    /\ pixels = <<>>
    /\ encoded = <<>>
    /\ decoded = NoOutcome
    /\ cdecoded = NoOutcome
    /\ mdecoded = NoOutcome
    /\ HuffIdle
    /\ HistIdle
    /\ ExtIdle

RawPack ==
    /\ pc = "raw"
    /\ encoded' = pack_bits(cbits)
    /\ pc' = "packed"
    /\ UNCHANGED <<m, data, decoded, pixels, cbits, cdecoded, mdecoded, huffVars, histVars, extVars>>

RawGolombDecode ==
    /\ pc = "packed"
    /\ \E chk \in BOOLEAN : decoded' = golomb_decode(chk, m, encoded)
    /\ pc' = "unpacked"
    /\ UNCHANGED <<m, data, encoded, pixels, cbits, cdecoded, mdecoded, huffVars, histVars, extVars>>

RawCustomDecode ==
    /\ pc = "raw"
    /\ \E chk \in BOOLEAN : cdecoded' = custom_decode(chk, cbits, m)
    /\ pc' = "decoded"
    /\ UNCHANGED <<m, data, encoded, decoded, pixels, cbits, mdecoded, huffVars, histVars, extVars>>

RawMatrixDecode ==
    /\ pc = "raw"
    /\ \E chk \in BOOLEAN, sh \in Shapes :
          mdecoded' = matrix_custom_decode(chk,
                          [m |-> m, encoded_bits |-> cbits, shape |-> sh])
    /\ pc' = "decoded"
    /\ UNCHANGED <<m, data, encoded, decoded, pixels, cbits, cdecoded, huffVars, histVars, extVars>>

NextRaw == RawPack \/ RawGolombDecode \/ RawCustomDecode \/ RawMatrixDecode

SpecRaw == InitRaw /\ [][NextRaw]_vars

-----------------------------------------------------------------------------
(* huffman_encode.rs: the tree, its ordering and the builder *)

Leaf(value, frequency) == [kind |-> "Leaf", value |-> value, frequency |-> frequency]
Internal(left, right) == [kind |-> "Internal", left |-> left, right |-> right]

\* NodeCmp with the Internal node ranked above the Leaf
NodeCmpInternalFirst(self, other) ==
    IF self.kind = "Internal" /\ other.kind = "Leaf" THEN "Greater"
    ELSE IF self.kind = "Leaf" /\ other.kind = "Internal" THEN "Less"
    ELSE IF self.kind = "Internal" /\ other.kind = "Internal" THEN "Equal"
    ELSE IF self.frequency < other.frequency THEN "Less"
    ELSE IF self.frequency > other.frequency THEN "Greater"
    ELSE "Equal"

\* impl Ord for HuffmanNode: self.cmp(other)
NodeCmp(self, other) ==
    IF self.kind = "Internal" /\ other.kind = "Leaf" THEN "Less"
    ELSE IF self.kind = "Leaf" /\ other.kind = "Internal" THEN "Greater"
    ELSE IF self.kind = "Internal" /\ other.kind = "Internal" THEN "Equal"
    ELSE IF self.frequency < other.frequency THEN "Less"
    ELSE IF self.frequency > other.frequency THEN "Greater"
    ELSE "Equal"

\* A heap entry (Reverse(freq), node); key is the freq inside the Reverse
Entry(key, node) == [key |-> key, node |-> node]

\* EntryGreater without the Reverse: the larger key wins
EntryGreaterNoReverse(e, f) ==
    \/ e.key > f.key
    \/ e.key = f.key /\ NodeCmp(e.node, f.node) = "Greater"

\* the lexicographic order of the tuple: Reverse compares the keys backwards,
\* the node decides between equal keys
EntryGreater(e, f) ==
    \/ e.key < f.key
    \/ e.key = f.key /\ NodeCmp(e.node, f.node) = "Greater"

\* the entries BinaryHeap::pop may return: a greatest one.  The order among
\* entries that compare equal is the heap's own, so any of them may come out.
PopChoices(h) == {e \in h : \A f \in h : ~EntryGreater(f, e)}

\* build_histogram: the number of occurrences of every value of the input
build_histogram(d) ==
    [v \in {d[i] : i \in 1..Len(d)} |-> Cardinality({i \in 1..Len(d) : d[i] = v})]

\* HeapOfLeaves with every Leaf given the frequency 1
HeapOfUnitLeaves(freqs) ==
    {Entry(freqs[v], Leaf(v, 1)) : v \in DOMAIN freqs}

\* data.iter().map(...).collect(): one Leaf entry per histogram key
HeapOfLeaves(freqs) ==
    {Entry(freqs[v], Leaf(v, freqs[v])) : v \in DOMAIN freqs}

\* MergeEntries pushing the parent with the key of the second entry alone
MergeEntriesSecondKey(h, first, second) ==
    (h \ {first, second})
        \cup {Entry(second.key, Internal(first.node, second.node))}

\* one iteration of the while loop with the two popped entries
MergeEntries(h, first, second) ==
    (h \ {first, second})
        \cup {Entry(first.key + second.key, Internal(first.node, second.node))}

\* generate_codes pushing 0 on the way to the right child too
RECURSIVE generate_codes_SameBit(_, _)
generate_codes_SameBit(node, current_code) ==
    IF node.kind = "Internal"
    THEN LET left_codes  == generate_codes_SameBit(node.left, Append(current_code, 0))
             right_codes == generate_codes_SameBit(node.right, Append(current_code, 0))
         IN  right_codes @@ left_codes
    ELSE (node.value :> current_code)

\* generate_codes: the map filled by the traversal started with current_code
RECURSIVE generate_codes(_, _)
generate_codes(node, current_code) ==
    IF node.kind = "Internal"
    THEN LET left_codes  == generate_codes(node.left, Append(current_code, 0))
             right_codes == generate_codes(node.right, Append(current_code, 1))
         IN  right_codes @@ left_codes
    ELSE (node.value :> current_code)

\* EncodeLoop that also skips a byte equal to the byte before it
RECURSIVE EncodeLoopNoRepeat(_, _, _, _)
EncodeLoopNoRepeat(d, k, codes, out) ==
    IF k > Len(d) THEN out
    ELSE IF d[k] \in DOMAIN codes /\ (k = 1 \/ d[k] # d[k - 1])
    THEN EncodeLoopNoRepeat(d, k + 1, codes, out \o codes[d[k]])
    ELSE EncodeLoopNoRepeat(d, k + 1, codes, out)

\* the loop of huffman_encode: a byte without an entry in code_map is skipped
RECURSIVE EncodeLoop(_, _, _, _)
EncodeLoop(d, k, codes, out) ==
    IF k > Len(d) THEN out
    ELSE IF d[k] \in DOMAIN codes
    THEN EncodeLoop(d, k + 1, codes, out \o codes[d[k]])
    ELSE EncodeLoop(d, k + 1, codes, out)

\* histogram.values().sum()
RECURSIVE SumOfValues(_, _)
SumOfValues(histogram, keys) ==
    IF keys = {} THEN 0
    ELSE LET key == CHOOSE x \in keys : TRUE
         IN  histogram[key] + SumOfValues(histogram, keys \ {key})

\* huffman.rs weighted_path_length: the sum of code.len() * frequencies[byte]
\* over the code map (the value returned is this sum divided by the total)
RECURSIVE WeightedSum(_, _, _)
WeightedSum(freqs, codes, keys) ==
    IF keys = {} THEN 0
    ELSE LET byte == CHOOSE x \in keys : TRUE
         IN  Len(codes[byte]) * freqs[byte] + WeightedSum(freqs, codes, keys \ {byte})

weighted_path_sum(freqs, codes) == WeightedSum(freqs, codes, DOMAIN codes)

-----------------------------------------------------------------------------
(* huffman_encode.rs weighted_path_length: the f32 arithmetic of             *)
(* normalize_histogram and weighted_path_length_internal.  An f32 other     *)
(* than 0.0 is kept as man * 2^exp with 2^23 <= man < 2^24.                  *)

F32Zero == [man |-> 0, exp |-> 0]

\* p / q rounded to the nearest integer, ties to the even one
RoundDiv(p, q) ==
    LET d == p \div q
        r == p % q
    IN  IF 2 * r < q THEN d
        ELSE IF 2 * r > q THEN d + 1
        ELSE IF d % 2 = 0 THEN d
        ELSE d + 1

\* the smallest j with n < 2^(24 + j)
RECURSIVE ExcessBits(_, _)
ExcessBits(n, j) == IF n < Pow2(24 + j) THEN j ELSE ExcessBits(n, j + 1)

\* the f32 nearest to n * 2^e, for an integer n > 0
RECURSIVE F32Normalise(_, _)
F32Normalise(n, e) ==
    IF n < Pow2(23) THEN F32Normalise(2 * n, e - 1)
    ELSE LET j   == ExcessBits(n, 0)
             man == RoundDiv(n, Pow2(j))
         IN  IF man = Pow2(24) THEN [man |-> Pow2(23), exp |-> e + j + 1]
             ELSE [man |-> man, exp |-> e + j]

\* the smallest k with a * 2^k / b >= 2^23
RECURSIVE RatioShift(_, _, _)
RatioShift(a, b, k) ==
    IF a * Pow2(k) >= Pow2(23) * b THEN k ELSE RatioShift(a, b, k + 1)

\* a as f32 / b as f32 for integers a >= 0 and b > 0 that are f32 values: the
\* quotient a / b rounded once
F32Ratio(a, b) ==
    IF a = 0 THEN F32Zero
    ELSE LET k   == RatioShift(a, b, 0)
             man == RoundDiv(a * Pow2(k), b)
         IN  IF man = Pow2(24) THEN [man |-> Pow2(23), exp |-> 1 - k]
             ELSE [man |-> man, exp |-> -k]

\* x * (n as f32) for a small integer n: the exact product rounded once
F32Times(x, n) ==
    IF x.man = 0 \/ n = 0 THEN F32Zero ELSE F32Normalise(x.man * n, x.exp)

\* x + y: the exact sum rounded once
F32Plus(x, y) ==
    IF x.man = 0 THEN y
    ELSE IF y.man = 0 THEN x
    ELSE LET e == IF x.exp < y.exp THEN x.exp ELSE y.exp
         IN  F32Normalise(x.man * Pow2(x.exp - e) + y.man * Pow2(y.exp - e), e)

\* normalize_histogram: value as f32 / total as f32 for every key
normalize_histogram(histogram) ==
    [key \in DOMAIN histogram |->
        F32Ratio(histogram[key], SumOfValues(histogram, DOMAIN histogram))]

\* weighted_path_length_internal: for (symbol, freq) in the BTreeMap, in
\* ascending order of the symbols, result += *freq * code.len() as f32
RECURSIVE WeightedPathLoop(_, _, _, _)
WeightedPathLoop(histogram_normalized, codes, keys, res) ==
    IF keys = {} THEN res
    ELSE LET symbol == CHOOSE x \in keys : \A y \in keys : x <= y
             next   == IF symbol \in DOMAIN codes
                       THEN F32Plus(res, F32Times(histogram_normalized[symbol],
                                                  Len(codes[symbol])))
                       ELSE res
         IN  WeightedPathLoop(histogram_normalized, codes, keys \ {symbol}, next)

\* huffman_encode.rs weighted_path_length, given the histogram and the code map
weighted_path_length_f32(freqs, codes) ==
    WeightedPathLoop(normalize_histogram(freqs), codes, DOMAIN freqs, F32Zero)

\* huffman.rs weighted_path_length: result / total with result the integer
\* sum of code.len() * frequencies[byte] and total the sum of the
\* frequencies, both exact as f64: the rational num / den rounded once to f64
weighted_path_length_f64(freqs, codes) ==
    [num |-> weighted_path_sum(freqs, codes),
     den |-> SumOfValues(freqs, DOMAIN freqs)]

-----------------------------------------------------------------------------
(* Decoding of a Huffman bit sequence.  The repository has no decoder; this *)
(* is the walk of the tree the specification describes: follow one edge per *)
(* bit (0 = left, 1 = right) and emit the symbol when a Leaf is reached.    *)

RECURSIVE HuffmanDecodeLoop(_, _, _, _)
HuffmanDecodeLoop(bits, codes, current, out) ==
    IF bits = <<>> THEN out
    ELSE LET path == Append(current, Head(bits))
             hit  == {v \in DOMAIN codes : codes[v] = path}
         IN  IF hit # {}
             THEN HuffmanDecodeLoop(Tail(bits), codes, <<>>,
                                    Append(out, CHOOSE v \in hit : TRUE))
             ELSE HuffmanDecodeLoop(Tail(bits), codes, path, out)

huffman_decode(bits, codes) == HuffmanDecodeLoop(bits, codes, <<>>, <<>>)

-----------------------------------------------------------------------------
(* Scenario: huffman_encode of a byte sequence, one step per iteration of   *)
(* the loop of build_huffman_tree                                           *)

\* the byte values the Huffman and Histogram inputs are drawn from
Symbols == {1, 2, 3, 4}

GolombIdle ==
    /\ m = 1
    /\ data = <<>>
    /\ encoded = <<>>
    /\ decoded = NoOutcome
    /\ pixels = <<>>
    /\ cbits = <<>>
    /\ cdecoded = NoOutcome
    /\ mdecoded = NoOutcome

InitHuffman ==
    /\ pc = "input"
    /\ hdata \in SeqsUpTo(Symbols, MaxText)
    /\ frequencies = <<>>
    /\ heap = {}
    /\ tree = NoTree
    /\ code_map = <<>>
    /\ result = <<>>
    /\ code_len = <<>>
    /\ GolombIdle
    /\ HistIdle
    /\ ExtIdle

\* build_histogram, then the collection of the leaves into the heap
HuffStart ==
    /\ pc = "input"
    /\ frequencies' = build_histogram(hdata)
    /\ heap' = HeapOfLeaves(build_histogram(hdata))
    /\ pc' = "build"
    /\ UNCHANGED <<hdata, tree, code_map, result, code_len, golombVars, histVars, extVars>>

\* while heap.len() > 1: pop two entries, push their Internal parent
HuffMerge ==
    /\ pc = "build"
    /\ Cardinality(heap) > 1
    /\ \E first \in PopChoices(heap) :
          \E second \in PopChoices(heap \ {first}) :
             heap' = MergeEntries(heap, first, second)
    /\ UNCHANGED <<pc, hdata, frequencies, tree, code_map, result, code_len, golombVars, histVars, extVars>>

\* heap.pop().unwrap().1, then generate_codes and the encoding loop
HuffFinish ==
    /\ pc = "build"
    /\ Cardinality(heap) = 1
    /\ \E root \in heap :
          /\ tree' = root.node
          /\ code_map' = generate_codes(root.node, <<>>)
          /\ result' = EncodeLoop(hdata, 1, generate_codes(root.node, <<>>), <<>>)
          /\ code_len' = [v \in DOMAIN generate_codes(root.node, <<>>) |->
                              Len(generate_codes(root.node, <<>>)[v])]
    /\ heap' = {}
    /\ pc' = "done"
    /\ UNCHANGED <<hdata, frequencies, golombVars, histVars, extVars>>

\* heap.pop().unwrap() on an empty heap: the call panics
HuffPanic ==
    /\ pc = "build"
    /\ heap = {}
    /\ pc' = "panic"
    /\ UNCHANGED <<huffVars, golombVars, histVars, extVars>>

NextHuffman == HuffStart \/ HuffMerge \/ HuffFinish \/ HuffPanic

SpecHuffman == InitHuffman /\ [][NextHuffman]_vars

-----------------------------------------------------------------------------
(* Scenario: tests::test_huffman_encode, the tree of the text               *)
(* "this is an example of a huffman tree".  The text has 16 distinct bytes, *)
(* so a node of the heap is kept as the depth of each of its leaves below   *)
(* it: that depth is the length of the code generate_codes gives the leaf   *)
(* (one push_back per edge), and NodeCmp reads nothing else of a node.      *)

\* input_str.as_bytes()
TestText ==
    << 116, 104, 105, 115, 32, 105, 115, 32, 97, 110, 32, 101, 120, 97,
       109, 112, 108, 101, 32, 111, 102, 32, 97, 32, 104, 117, 102, 102,
       109, 97, 110, 32, 116, 114, 101, 101 >>

DepthLeaf(value, frequency) ==
    [kind |-> "Leaf", frequency |-> frequency, depth |-> (value :> 0)]

\* Internal { left, right }: every leaf of both children is one edge deeper
DepthInternal(left, right) ==
    [kind |-> "Internal",
     depth |-> [v \in DOMAIN left.depth \cup DOMAIN right.depth |->
                   IF v \in DOMAIN left.depth THEN left.depth[v] + 1
                   ELSE right.depth[v] + 1]]

DepthHeapOfLeaves(freqs) ==
    {Entry(freqs[v], DepthLeaf(v, freqs[v])) : v \in DOMAIN freqs}

\* the merged entry pushed with the second key alone instead of the sum
DepthMergeEntriesSecondKey(h, first, second) ==
    (h \ {first, second})
        \cup {Entry(second.key, DepthInternal(first.node, second.node))}

\* one iteration of the while loop with the two popped entries
DepthMergeEntries(h, first, second) ==
    (h \ {first, second})
        \cup {Entry(first.key + second.key, DepthInternal(first.node, second.node))}

InitText ==
    /\ pc = "input"
    /\ hdata = TestText
    /\ frequencies = <<>>
    /\ heap = {}
    /\ tree = NoTree
    /\ code_map = <<>>
    /\ result = <<>>
    /\ code_len = <<>>
    /\ GolombIdle
    /\ HistIdle
    /\ ExtIdle

TextStart ==
    /\ pc = "input"
    /\ frequencies' = build_histogram(hdata)
    /\ heap' = DepthHeapOfLeaves(build_histogram(hdata))
    /\ pc' = "build"
    /\ UNCHANGED <<hdata, tree, code_map, result, code_len, golombVars, histVars, extVars>>

TextMerge ==
    /\ pc = "build"
    /\ Cardinality(heap) > 1
    /\ \E first \in PopChoices(heap) :
          \E second \in PopChoices(heap \ {first}) :
             heap' = DepthMergeEntries(heap, first, second)
    /\ UNCHANGED <<pc, hdata, frequencies, tree, code_map, result, code_len,
                   golombVars, histVars, extVars>>

TextFinish ==
    /\ pc = "build"
    /\ Cardinality(heap) = 1
    /\ \E root \in heap : code_len' = root.node.depth
    /\ heap' = {}
    /\ pc' = "done"
    /\ UNCHANGED <<hdata, frequencies, tree, code_map, result, golombVars, histVars, extVars>>

NextText == TextStart \/ TextMerge \/ TextFinish

SpecText == InitText /\ [][NextText]_vars

-----------------------------------------------------------------------------
(* histogram.rs: Histogram::new, add and from_iter *)

\* self.counts.get(&value).copied().unwrap_or(0)
CountOf(c, value) == IF value \in DOMAIN c THEN c[value] ELSE 0

\* add with the running total left alone
HistogramAddNoTotal(h, value) ==
    [counts |-> [v \in DOMAIN h.counts \cup {value} |->
                    IF v = value THEN CountOf(h.counts, v) + 1 ELSE h.counts[v]],
     total_count |-> h.total_count]

\* let count = self.counts.entry(value).or_insert(0); *count += 1;
\* self.total_count += 1;
HistogramAdd(h, value) ==
    [counts |-> [v \in DOMAIN h.counts \cup {value} |->
                    IF v = value THEN CountOf(h.counts, v) + 1 ELSE h.counts[v]],
     total_count |-> h.total_count + 1]

HistogramNew == [counts |-> <<>>, total_count |-> 0]

\* from_iter: Histogram::new(), then add of every item in order
RECURSIVE FromIterLoop(_, _, _)
FromIterLoop(items, k, h) ==
    IF k > Len(items) THEN h
    ELSE FromIterLoop(items, k + 1, HistogramAdd(h, items[k]))

HistogramFromIter(items) == FromIterLoop(items, 1, HistogramNew)

InitHistogram ==
    /\ pc = "histogram"
    /\ counts = HistogramNew.counts
    /\ total_count = HistogramNew.total_count
    /\ adds = 0
    /\ last = NoOp
    /\ GolombIdle
    /\ HuffIdle
    /\ ExtIdle

\* histogram.add(value)
HistAdd ==
    /\ adds < MaxAdds
    /\ \E value \in Symbols :
          LET h == HistogramAdd([counts |-> counts, total_count |-> total_count], value)
          IN  /\ counts' = h.counts
              /\ total_count' = h.total_count
              /\ last' = [op |-> "add", value |-> value]
    /\ adds' = adds + 1
    /\ UNCHANGED <<pc, golombVars, huffVars, extVars>>

\* the histogram is replaced by items.collect::<Histogram<_>>()
HistFromIter ==
    /\ \E items \in SeqsUpTo(Symbols, MaxIter) :
          LET h == HistogramFromIter(items)
          IN  /\ counts' = h.counts
              /\ total_count' = h.total_count
              /\ adds' = Len(items)
              /\ last' = [op |-> "from_iter"]
    /\ UNCHANGED <<pc, golombVars, huffVars, extVars>>

NextHistogram == HistAdd \/ HistFromIter

SpecHistogram == InitHistogram /\ [][NextHistogram]_vars

-----------------------------------------------------------------------------
(* lib.rs golomb_encode and custom_encode.rs custom_encode: the choice of m  *)
(* from the mean of the input.  The mean is an f32: a 24-bit significand,    *)
(* every operation rounded to the nearest value, ties to the even one.       *)

\* largest number of short runs of an input
MaxRuns == 2
\* number of pixels of the long run that may lead an input
LongRun == 131071

\* the spacing of the f32 values around the integer x >= 0: integers below
\* 2^24 are f32 values, from 2^24 on only every second one, from 2^25 on ...
RECURSIVE F32Step(_, _)
F32Step(x, step) == IF x < Pow2(24) * step THEN step ELSE F32Step(x, 2 * step)

\* the f32 nearest to the integer x
F32Round(x) ==
    LET step == F32Step(x, 1)
        q    == x \div step
        rem  == x % step
    IN  IF 2 * rem < step THEN q * step
        ELSE IF 2 * rem > step THEN (q + 1) * step
        ELSE IF q % 2 = 0 THEN q * step
        ELSE (q + 1) * step

\* for &n in data { mean += n as f32; } over count copies of value.  While the
\* partial sums stay below 2^24 every addition is exact, so those additions are
\* taken in one step; past 2^24 each addition is rounded.
RECURSIVE SumRun(_, _, _)
SumRun(mean, value, count) ==
    IF count = 0 \/ value = 0 THEN mean
    ELSE IF mean + value * count < Pow2(24) THEN mean + value * count
    ELSE IF mean + value < Pow2(24)
    THEN LET k == (Pow2(24) - 1 - mean) \div value
         IN  SumRun(mean + value * k, value, count - k)
    ELSE SumRun(F32Round(mean + value), value, count - 1)

RECURSIVE SumRuns(_, _, _)
SumRuns(rs, k, mean) ==
    IF k > Len(rs) THEN mean
    ELSE SumRuns(rs, k + 1, SumRun(mean, rs[k].value, rs[k].count))

\* data.len()
RECURSIVE TotalLen(_)
TotalLen(rs) == IF rs = <<>> THEN 0 ELSE Head(rs).count + TotalLen(Tail(rs))

\* (m as f32) < mean / 2.0, where mean is the f32 quotient sum / len.  Halving
\* is exact, so this is 2m < fl(sum / len); 2m is a power of two (or 0), the
\* next f32 above it is 2m * (1 + 2^-23) and a tie rounds to 2m, hence the
\* test is sum / len > 2m * (1 + 2^-24).  With len = 0 the mean is 0.0 / 0.0 =
\* NaN and the comparison is false.
F32Less(mm, sum, len) ==
    LET d == sum - 2 * mm * len
    IN  len # 0 /\ d >= 1 /\ (d >= 128 \/ d * Pow2(24) > 2 * mm * len)

\* let mut m = 1u8; while (m as f32) < mean / 2.0 { m *= 2; }
\* m *= 2 at m = 128 overflows the u8: a panic with overflow checks, else m
\* wraps to 0 and the loop never ends ("hang")
RECURSIVE SelectLoop(_, _, _, _)
SelectLoop(chk, sum, len, mm) ==
    IF ~F32Less(mm, sum, len) THEN [end |-> "ok", m |-> mm]
    ELSE IF 2 * mm > 255
    THEN IF chk THEN [end |-> "overflow", m |-> mm] ELSE [end |-> "hang", m |-> 0]
    ELSE SelectLoop(chk, sum, len, 2 * mm)

\* golomb_encode and custom_encode up to the call of the inner encoder
select_m(chk, rs) == SelectLoop(chk, SumRuns(rs, 1, 0), TotalLen(rs), 1)

\* the pixels the runs stand for, in order
RECURSIVE Expand(_)
Expand(rs) ==
    IF rs = <<>> THEN <<>>
    ELSE [i \in 1..Head(rs).count |-> CustomPixel(Head(rs).sign, Head(rs).value)]
            \o Expand(Tail(rs))

\* the same input as the &[u8] of golomb_encode
Values(ps) == [i \in 1..Len(ps) |-> ps[i].value]

-----------------------------------------------------------------------------
(* Scenario: golomb_encode or custom_encode of an input given as runs: the   *)
(* selection of m, then (for an input of at most MaxLen pixels) the call of  *)
(* the inner encoder with it                                                 *)

ShortRuns ==
    {[sign |-> sg, value |-> v, count |-> c] :
        sg \in BOOLEAN, v \in {0, 1, 129, 255}, c \in 1..2}
LongRuns == {<<>>, <<[sign |-> FALSE, value |-> 128, count |-> LongRun]>>}

InitParam ==
    /\ pc = "input"
    /\ runs \in {lead \o tail : lead \in LongRuns, tail \in SeqsUpTo(ShortRuns, MaxRuns)}
    /\ csv = <<>>
    /\ matrix = NoMatrix
    /\ encoded_image = [m |-> 1, encoded_bits |-> <<>>, shape |-> <<0, 0>>]
    /\ original_image = NoImage
    /\ pred_err = NoMatrix
    /\ reconstructed_image = NoImage
    /\ GolombIdle
    /\ HuffIdle
    /\ HistIdle

GolombSelect ==
    /\ pc = "input"
    /\ \E chk \in BOOLEAN :
          LET o == select_m(chk, runs)
          IN  /\ m' = o.m
              /\ pc' = IF o.end = "ok" THEN "golomb_selected" ELSE o.end
    /\ UNCHANGED <<data, encoded, decoded, pixels, cbits, cdecoded, mdecoded,
                   huffVars, histVars, extVars>>

GolombEncodeSelected ==
    /\ pc = "golomb_selected"
    /\ TotalLen(runs) <= MaxLen
    /\ data' = Values(Expand(runs))
    /\ encoded' = golomb_encode_inner(Values(Expand(runs)), m)
    /\ pc' = "golomb_encoded"
    /\ UNCHANGED <<m, decoded, pixels, cbits, cdecoded, mdecoded,
                   huffVars, histVars, extVars>>

CustomSelect ==
    /\ pc = "input"
    /\ \E chk \in BOOLEAN :
          LET o == select_m(chk, runs)
          IN  /\ m' = o.m
              /\ pc' = IF o.end = "ok" THEN "custom_selected" ELSE o.end
    /\ UNCHANGED <<data, encoded, decoded, pixels, cbits, cdecoded, mdecoded,
                   huffVars, histVars, extVars>>

CustomEncodeSelected ==
    /\ pc = "custom_selected"
    /\ TotalLen(runs) <= MaxLen
    /\ pixels' = Expand(runs)
    /\ cbits' = custom_encode_inner(Expand(runs), m)
    /\ pc' = "custom_encoded"
    /\ UNCHANGED <<m, data, encoded, decoded, cdecoded, mdecoded,
                   huffVars, histVars, extVars>>

NextParam ==
    GolombSelect \/ GolombEncodeSelected \/ CustomSelect \/ CustomEncodeSelected

SpecParam == InitParam /\ [][NextParam]_vars

-----------------------------------------------------------------------------
(* histogram.rs: Histogram::to_csv for T = u8 *)

\* longest iterator the exported histogram is collected from
MaxCsvItems == 4
\* the symbol values of the exported histograms, and the ends of the ranges
CsvSymbols == {0, 10, 200, 255}

\* count as f64 / self.total_count as f64: the quotient num / den (NaN when
\* both are 0)
Frequency(count, total) == [num |-> count, den |-> total]

CsvRow(pixel, frequency) == [pixel |-> pixel, frequency |-> frequency]

\* the state of the loop of to_csv: current, the rows written so far and
\* "run" while the loop is running, else how it ended
CsvLoop(min, max, current, end, rows) ==
    [min |-> min, max |-> max, current |-> current, end |-> end, rows |-> rows]

\* ToCsvIteration without `if current == max { break; }`: the increment is
\* reached with current = max
ToCsvIterationNoBreak(h, st) ==
    IF ~(st.current <= st.max)
    THEN CsvLoop(st.min, st.max, st.current, "ok", st.rows)
    ELSE LET count == CountOf(h.counts, st.current)
             rows2 == Append(st.rows,
                             CsvRow(st.current, Frequency(count, h.total_count)))
         IN  IF st.current + 1 > 255
             THEN CsvLoop(st.min, st.max, st.current, "overflow", rows2)
             ELSE CsvLoop(st.min, st.max, st.current + 1, "run", rows2)

\* one evaluation of the loop test and, when it holds, of the loop body:
\* while current <= max { row; if current == max { break; } current = current + 1 }
\* "overflow" is current + T::from(1u8) leaving the u8 range
ToCsvIteration(h, st) ==
    IF ~(st.current <= st.max)
    THEN CsvLoop(st.min, st.max, st.current, "ok", st.rows)
    ELSE LET count == CountOf(h.counts, st.current)
             rows2 == Append(st.rows,
                             CsvRow(st.current, Frequency(count, h.total_count)))
         IN  IF st.current = st.max
             THEN CsvLoop(st.min, st.max, st.current, "ok", rows2)
             ELSE IF st.current + 1 > 255
             THEN CsvLoop(st.min, st.max, st.current, "overflow", rows2)
             ELSE CsvLoop(st.min, st.max, st.current + 1, "run", rows2)

-----------------------------------------------------------------------------
(* Scenario: a histogram collected from an iterator is exported by to_csv,  *)
(* one step per iteration of its loop                                       *)

InitCsv ==
    /\ pc = "histogram"
    /\ \E items \in SeqsUpTo(CsvSymbols, MaxCsvItems) :
          /\ counts = HistogramFromIter(items).counts
          /\ total_count = HistogramFromIter(items).total_count
          /\ adds = Len(items)
    /\ last = [op |-> "from_iter"]
    /\ csv = <<>>
    /\ runs = <<>>
    /\ matrix = NoMatrix
    /\ encoded_image = [m |-> 1, encoded_bits |-> <<>>, shape |-> <<0, 0>>]
    /\ original_image = NoImage
    /\ pred_err = NoMatrix
    /\ reconstructed_image = NoImage
    /\ GolombIdle
    /\ HuffIdle

\* histogram.to_csv(path, min, max): the header is written, current = min
ToCsvStart ==
    /\ pc = "histogram"
    /\ \E min \in {0, 200}, max \in {10, 255} :
          csv' = CsvLoop(min, max, min, "run", <<>>)
    /\ pc' = "export"
    /\ UNCHANGED <<golombVars, huffVars, histVars, runs, matrix, encoded_image,
                   original_image, pred_err, reconstructed_image>>

\* one iteration of the loop; the call returns when the loop has ended
ToCsvStep ==
    /\ pc = "export"
    /\ csv' = ToCsvIteration([counts |-> counts, total_count |-> total_count], csv)
    /\ pc' = IF csv'.end = "run" THEN "export" ELSE "exported"
    /\ UNCHANGED <<golombVars, huffVars, histVars, runs, matrix, encoded_image,
                   original_image, pred_err, reconstructed_image>>

NextCsv == ToCsvStart \/ ToCsvStep

SpecCsv == InitCsv /\ [][NextCsv]_vars

-----------------------------------------------------------------------------
(* golomb/encode.rs: custom_encode of an Array2<i32> *)

\* largest number of elements of a matrix of the round-trip scenario
MaxCells == 4

\* x.abs()
Abs(x) == IF x < 0 THEN -x ELSE x

\* for n in abs_value { mean += n as f32; }
RECURSIVE AbsSumLoop(_, _, _)
AbsSumLoop(elems, k, mean) ==
    IF k > Len(elems) THEN mean
    ELSE AbsSumLoop(elems, k + 1, F32Round(mean + Abs(elems[k])))

\* let mut m = 1u8; let mut b = 0;
\* while (m as f32) < mean / 2.0 { m *= 2; b += 1; }
RECURSIVE MatrixSelectLoop(_, _, _, _, _)
MatrixSelectLoop(chk, sum, len, mm, b) ==
    IF ~F32Less(mm, sum, len) THEN [end |-> "ok", m |-> mm, b |-> b]
    ELSE IF 2 * mm > 255
    THEN IF chk THEN [end |-> "overflow", m |-> mm, b |-> b]
         ELSE [end |-> "hang", m |-> 0, b |-> b]
    ELSE MatrixSelectLoop(chk, sum, len, 2 * mm, b + 1)

\* PixelOf with the sign bit of every element clear
PixelOfNoSign(v) == CustomPixel(FALSE, Abs(v) % 256)

\* v.unsigned_abs() as u8 and v < 0
PixelOf(v) == CustomPixel(v < 0, Abs(v) % 256)

\* custom_encode: the loop over the elements in logical (row-major) order
\* pushes, for each, what the loop of custom_encode.rs pushes for the pixel
\* (v < 0, |v| as u8)
matrix_custom_encode(chk, mat) ==
    LET sel == MatrixSelectLoop(chk, AbsSumLoop(mat.elems, 1, 0), Len(mat.elems), 1, 0)
        px  == [k \in 1..Len(mat.elems) |-> PixelOf(mat.elems[k])]
    IN  IF sel.end # "ok"
        THEN [end |-> sel.end,
              image |-> [m |-> sel.m, encoded_bits |-> <<>>, shape |-> mat.shape]]
        ELSE [end |-> "ok",
              image |-> [m |-> sel.m,
                         encoded_bits |-> CustomBitsLoop(px, 1, sel.m, sel.b, <<>>),
                         shape |-> mat.shape]]

-----------------------------------------------------------------------------
(* Scenario: custom_encode of a matrix, then decode() of the encoded image *)

\* the prediction errors the matrices are drawn from
MatrixValues == {-255, -21, -1, 0, 1, 255}

Matrices ==
    UNION {{[shape |-> sh, elems |-> e] : e \in [1..(sh[1] * sh[2]) -> MatrixValues]} :
              sh \in {s \in Shapes : s[1] * s[2] <= MaxCells}}

InitMatrix ==
    /\ pc = "input"
    /\ matrix \in Matrices
    /\ encoded_image = [m |-> 1, encoded_bits |-> <<>>, shape |-> <<0, 0>>]
    /\ runs = <<>>
    /\ csv = <<>>
    /\ original_image = NoImage
    /\ pred_err = NoMatrix
    /\ reconstructed_image = NoImage
    /\ GolombIdle
    /\ HuffIdle
    /\ HistIdle

MatrixEncode ==
    /\ pc = "input"
    /\ \E chk \in BOOLEAN :
          LET o == matrix_custom_encode(chk, matrix)
          IN  /\ encoded_image' = o.image
              /\ pc' = IF o.end = "ok" THEN "encoded" ELSE o.end
    /\ UNCHANGED <<golombVars, huffVars, histVars, runs, csv, matrix,
                   original_image, pred_err, reconstructed_image>>

\* encoded_image.decode()
MatrixDecode ==
    /\ pc = "encoded"
    /\ \E chk \in BOOLEAN : mdecoded' = matrix_custom_decode(chk, encoded_image)
    /\ pc' = "decoded"
    /\ UNCHANGED <<m, data, encoded, decoded, pixels, cbits, cdecoded,
                   huffVars, histVars, extVars>>

NextMatrix == MatrixEncode \/ MatrixDecode

SpecMatrix == InitMatrix /\ [][NextMatrix]_vars

-----------------------------------------------------------------------------
(* Scenario: custom_encode of an Array2<i32> whose entries are any i32, such *)
(* as the prediction residuals of an 8-bit image, which lie in -510..510     *)

WideValues == {-510, -256, 0, 255, 510}

WideMatrices ==
    UNION {{[shape |-> sh, elems |-> e] : e \in [1..(sh[1] * sh[2]) -> WideValues]} :
              sh \in {s \in Shapes : s[1] * s[2] <= MaxCells}}

InitWide ==
    /\ pc = "input"
    /\ matrix \in WideMatrices
    /\ encoded_image = [m |-> 1, encoded_bits |-> <<>>, shape |-> <<0, 0>>]
    /\ runs = <<>>
    /\ csv = <<>>
    /\ original_image = NoImage
    /\ pred_err = NoMatrix
    /\ reconstructed_image = NoImage
    /\ GolombIdle
    /\ HuffIdle
    /\ HistIdle

SpecWide == InitWide /\ [][NextMatrix]_vars

-----------------------------------------------------------------------------
(* main.rs: prediction_err_matrix, reconstruct_image_from_pred_err_matrix   *)
(* and verify_equality_imgs                                                 *)

\* largest width and height of an image
MaxSide == 2
\* the gray levels the images are drawn from (u8 values)
GrayLevels == {0, 128, 255}

\* a GrayImage: px[<<x, y>>] is get_pixel(x, y)[0]
GrayImage(width, height, px) == [width |-> width, height |-> height, px |-> px]

\* the closure f of prediction_err_matrix
PixelOrZero(img, x, y) ==
    IF x >= img.width \/ y >= img.height THEN 0 ELSE img.px[<<x, y>>]

\* PredictionValue with the diagonal neighbour subtracted instead of added
PredictionValueMinusDiagonal(img, x, y) ==
    IF x > 0 /\ y > 0
    THEN PixelOrZero(img, x, y) - PixelOrZero(img, x - 1, y)
            - PixelOrZero(img, x, y - 1) - PixelOrZero(img, x - 1, y - 1)
    ELSE IF x > 0 THEN PixelOrZero(img, x, y) - PixelOrZero(img, x - 1, y)
    ELSE IF y > 0 THEN PixelOrZero(img, x, y) - PixelOrZero(img, x, y - 1)
    ELSE PixelOrZero(img, x, y)

\* new_value of the pixel (x, y)
PredictionValue(img, x, y) ==
    IF x > 0 /\ y > 0
    THEN PixelOrZero(img, x, y) - PixelOrZero(img, x - 1, y)
            - PixelOrZero(img, x, y - 1) + PixelOrZero(img, x - 1, y - 1)
    ELSE IF x > 0 THEN PixelOrZero(img, x, y) - PixelOrZero(img, x - 1, y)
    ELSE IF y > 0 THEN PixelOrZero(img, x, y) - PixelOrZero(img, x, y - 1)
    ELSE PixelOrZero(img, x, y)

\* Array2::zeros((width, height)) filled by new_matrix[[x, y]] = new_value:
\* element [[x, y]] is the (x * height + y)-th in row-major order
prediction_err_matrix(img) ==
    [shape |-> <<img.width, img.height>>,
     elems |-> [k \in 1..(img.width * img.height) |->
                   PredictionValue(img, (k - 1) \div img.height, (k - 1) % img.height)]]

\* the closure f of reconstruct_image_from_pred_err_matrix: matrix[[x, y]]
ErrorOrZero(mat, x, y) ==
    IF x >= mat.shape[1] \/ y >= mat.shape[2] THEN 0
    ELSE mat.elems[x * mat.shape[2] + y + 1]

\* new_pixel before the cap, from the pixels already put
ReconstructedValue(mat, img, x, y) ==
    IF x > 0 /\ y > 0
    THEN PixelOrZero(img, x - 1, y) + PixelOrZero(img, x, y - 1)
            - PixelOrZero(img, x - 1, y - 1) + ErrorOrZero(mat, x, y)
    ELSE IF x > 0 THEN PixelOrZero(img, x - 1, y) + ErrorOrZero(mat, x, y)
    ELSE IF y > 0 THEN PixelOrZero(img, x, y - 1) + ErrorOrZero(mat, x, y)
    ELSE ErrorOrZero(mat, x, y)

\* if new_pixel < 0 { 0 } else if new_pixel > 255 { 255 }
Cap(new_pixel) == IF new_pixel < 0 THEN 0 ELSE IF new_pixel > 255 THEN 255 ELSE new_pixel

\* for x in 0..width { for y in 0..height { ... put_pixel } }: k counts the
\* pixels put so far; capped records that the cap changed some new_pixel
RECURSIVE ReconstructLoop(_, _, _, _)
ReconstructLoop(mat, k, img, capped) ==
    IF k >= img.width * img.height THEN [image |-> img, capped |-> capped]
    ELSE LET x == k \div img.height
             y == k % img.height
             new_pixel == ReconstructedValue(mat, img, x, y)
         IN  ReconstructLoop(mat, k + 1,
                 GrayImage(img.width, img.height,
                           [img.px EXCEPT ![<<x, y>>] = Cap(new_pixel)]),
                 capped \/ Cap(new_pixel) # new_pixel)

\* GrayImage::new(width, height): every pixel 0
BlankImage(width, height) ==
    GrayImage(width, height,
              [xy \in (0..(width - 1)) \X (0..(height - 1)) |-> 0])

reconstruct_image_from_pred_err_matrix(mat) ==
    ReconstructLoop(mat, 0, BlankImage(mat.shape[1], mat.shape[2]), FALSE)

\* verify_equality_imgs(a, b) returns (TRUE) or panics (FALSE)
verify_equality_imgs(a, b) ==
    /\ <<a.width, a.height>> = <<b.width, b.height>>
    /\ \A x \in 0..(a.width - 1) : \A y \in 0..(a.height - 1) :
          a.px[<<x, y>>] = b.px[<<x, y>>]

-----------------------------------------------------------------------------
(* Scenario: main.rs Tasks C and E: the prediction error matrix of an image, *)
(* the image reconstructed from it and their comparison                     *)

GrayImages ==
    UNION {{GrayImage(w, h, px) :
                px \in [(0..(w - 1)) \X (0..(h - 1)) -> GrayLevels]} :
              w \in 0..MaxSide, h \in 0..MaxSide}

InitImage ==
    /\ pc = "input"
    /\ original_image \in GrayImages
    /\ pred_err = NoMatrix
    /\ reconstructed_image = NoImage
    /\ runs = <<>>
    /\ csv = <<>>
    /\ matrix = NoMatrix
    /\ encoded_image = [m |-> 1, encoded_bits |-> <<>>, shape |-> <<0, 0>>]
    /\ GolombIdle
    /\ HuffIdle
    /\ HistIdle

PredictionErr ==
    /\ pc = "input"
    /\ pred_err' = prediction_err_matrix(original_image)
    /\ pc' = "predicted"
    /\ UNCHANGED <<golombVars, huffVars, histVars, runs, csv, matrix, encoded_image,
                   original_image, reconstructed_image>>

Reconstruct ==
    /\ pc = "predicted"
    /\ reconstructed_image' = reconstruct_image_from_pred_err_matrix(pred_err)
    /\ pc' = "reconstructed"
    /\ UNCHANGED <<golombVars, huffVars, histVars, runs, csv, matrix, encoded_image,
                   original_image, pred_err>>

VerifyEquality ==
    /\ pc = "reconstructed"
    /\ pc' = IF verify_equality_imgs(original_image, reconstructed_image.image)
             THEN "equal" ELSE "panic"
    /\ UNCHANGED <<golombVars, huffVars, histVars, extVars>>

NextImage == PredictionErr \/ Reconstruct \/ VerifyEquality

SpecImage == InitImage /\ [][NextImage]_vars

-----------------------------------------------------------------------------
(* Properties of the Golomb codecs and of pack_bits *)

\* C1: unsigned packed round trip: golomb_decode(m, golomb_encode_inner(v, m))
\* returns exactly v, for every magnitude sequence v and power-of-two m.
C1_GolombRoundTrip ==
    pc = "decoded" => decoded.out = data

\* C2: signed round trip on the unpacked bitstream: custom_decode(
\* custom_encode_inner(d, m), m) has the length of d and its i-th element has
\* the sign and the value of d[i].
C2_SignedRoundTrip ==
    pc = "decoded" =>
        /\ cdecoded.end = "ok"
        /\ Len(cdecoded.out) = Len(pixels)
        /\ \A i \in 1..Len(pixels) :
              /\ cdecoded.out[i].sign = pixels[i].sign
              /\ cdecoded.out[i].value = pixels[i].value

\* a decoded sequence of several pixels holding a negative zero and a pixel
\* with a non-zero quotient and remainder
C2_Witness ==
    /\ pc = "decoded"
    /\ Len(pixels) >= 2
    /\ \E i \in 1..Len(pixels) : pixels[i].sign /\ pixels[i].value = 0
    /\ \E i \in 1..Len(pixels) :
          pixels[i].value \div m > 0 /\ pixels[i].value % m > 0

\* The codeword of v as the claim lays it out: (v div m) zero bits, one 1 bit,
\* then (v mod m) as a field of b = log2(m) bits, most significant bit first.
LayoutCodeword(v, mm) ==
    LET b == CHOOSE k \in 0..7 : Pow2(k) = mm
        q == v \div mm
        r == v % mm
    IN  [i \in 1..(q + 1 + b) |->
            IF i <= q THEN 0
            ELSE IF i = q + 1 THEN 1
            ELSE (r \div Pow2(q + 1 + b - i)) % 2]

RECURSIVE LayoutStream(_, _)
LayoutStream(d, mm) ==
    IF d = <<>> THEN <<>>
    ELSE LayoutCodeword(Head(d), mm) \o LayoutStream(Tail(d), mm)

\* C3: golomb_encode_inner(v, m) is pack_bits of the codewords in input order;
\* [21,21,21,21] with m = 8 gives [0b00110100, 0b11010011, 0b01001101] and [21]
\* with m = 8 gives [0b00110100].
C3_CodewordLayout ==
    pc # "input" =>
        /\ encoded = pack_bits(LayoutStream(data, m))
        /\ (data = <<21, 21, 21, 21>> /\ m = 8) => encoded = <<52, 211, 77>>
        /\ (data = <<21>> /\ m = 8) => encoded = <<52>>

\* the first test vector of lib.rs has been encoded
C3_Witness ==
    pc = "encoded" /\ data = <<21, 21, 21, 21>> /\ m = 8 /\ Len(encoded) = 3

\* bit number pos (0 = least significant) of a byte
BitOf(byte, pos) == (byte \div Pow2(pos)) % 2

\* C4: pack_bits is MSB-first with zero padding: ceil(n / 8) bytes, input bit k
\* in byte k div 8 at position 7 - (k mod 8), zeros after the n-th bit.
C4_PackBitsLayout ==
    pc = "packed" =>
        LET n == Len(cbits)
        IN  /\ Len(encoded) = (n + 7) \div 8
            /\ \A k \in 0..(n - 1) :
                  BitOf(encoded[(k \div 8) + 1], 7 - (k % 8)) = cbits[k + 1]
            /\ \A k \in n..(8 * Len(encoded) - 1) :
                  BitOf(encoded[(k \div 8) + 1], 7 - (k % 8)) = 0
            /\ \A j \in 1..Len(encoded) : encoded[j] \in 0..255

\* a buffer of more than one byte whose last byte is partial and holds a 1
C4_Witness ==
    /\ pc = "packed"
    /\ Len(cbits) > 8
    /\ Len(cbits) % 8 # 0
    /\ cbits[Len(cbits)] = 1
    /\ Len(encoded) = 2

\* C10: no decoder uses an index that is not smaller than the buffer length.
C10_NoOutOfBoundsRead ==
    /\ decoded.end # "oob"
    /\ cdecoded.end # "oob"
    /\ mdecoded.end # "oob"

\* C11: golomb_decode never hands back the values decoded so far as a normal
\* result when the buffer ends inside, or right after, the remainder bits of a
\* codeword: that end of the call is a reported failure.  ("eof_rem" is the
\* plain `return decoded_bits` of the remainder loop.)
C11_TruncationReported ==
    pc = "unpacked" => decoded.end # "eof_rem"

\* C15: custom_encode(matrix).decode() of a matrix with entries in -255..255
\* has the shape of the matrix and its entries in row-major order: negative
\* entries come back negative and zero comes back zero.
C15_MatrixRoundTrip ==
    pc = "decoded" =>
        /\ mdecoded.end = "ok"
        /\ encoded_image.shape = matrix.shape
        /\ Len(mdecoded.out) = matrix.shape[1] * matrix.shape[2]
        /\ \A r \in 1..matrix.shape[1] : \A c \in 1..matrix.shape[2] :
              mdecoded.out[(r - 1) * matrix.shape[2] + c] =
                  matrix.elems[(r - 1) * matrix.shape[2] + c]

\* a decoded 2 x 2 matrix with a negative entry, a zero and a positive entry,
\* encoded with m > 1
C15_Witness ==
    /\ pc = "decoded"
    /\ matrix.shape = <<2, 2>>
    /\ encoded_image.m > 1
    /\ \E k \in 1..4 : matrix.elems[k] < 0
    /\ \E k \in 1..4 : matrix.elems[k] = 0
    /\ \E k \in 1..4 : matrix.elems[k] > 0

\* C12: golomb_encode and custom_encode given a zero-length input end in an
\* explicit empty-input failure: they neither return a normal result (m = 1
\* and an empty stream) nor panic.
C12_EmptyInputFails ==
    TotalLen(runs) = 0 => pc \in {"input", "empty_input"}

\* the sum of the input, as an integer
RECURSIVE ExactSum(_)
ExactSum(rs) ==
    IF rs = <<>> THEN 0 ELSE Head(rs).value * Head(rs).count + ExactSum(Tail(rs))

\* C13: for a non-empty input of n magnitudes with sum S, golomb_encode and
\* custom_encode pick a power of two m in 1..128 with 2*m*n >= S, the smallest
\* one (m = 1 or m*n < S), and the doubling loop ends without overflowing m.
C13_ParameterSelection ==
    (pc # "input" /\ TotalLen(runs) >= 1) =>
        LET n == TotalLen(runs)
            S == ExactSum(runs)
        IN  /\ pc \notin {"overflow", "hang"}
            /\ m \in PowersOfTwo
            /\ 2 * m * n >= S
            /\ (m = 1 \/ m * n < S)

-----------------------------------------------------------------------------
(* Properties of the Huffman coder *)

\* p is a prefix of c, or equal to it
IsPrefix(p, c) == Len(p) <= Len(c) /\ SubSeq(c, 1, Len(p)) = p

\* C5: the code table of a non-empty input is prefix-free: no symbol's code is
\* a prefix of, or equal to, the code of another symbol, whatever the order in
\* which the heap returns entries that compare equal.
C5_PrefixFree ==
    pc = "done" =>
        /\ DOMAIN code_map = {hdata[i] : i \in 1..Len(hdata)}
        /\ \A a \in DOMAIN code_map : \A b \in DOMAIN code_map \ {a} :
              ~IsPrefix(code_map[a], code_map[b])

\* a finished table of at least three symbols with codes of different lengths
C5_Witness ==
    /\ pc = "done"
    /\ Cardinality(DOMAIN code_map) >= 3
    /\ \E a \in DOMAIN code_map : \E b \in DOMAIN code_map :
          Len(code_map[a]) < Len(code_map[b])

\* C6: decoding huffman_encode(s) against the code table built from s yields
\* s, also when s holds a single distinct symbol.
C6_HuffmanRoundTrip ==
    pc = "done" => huffman_decode(result, code_map) = hdata

\* C7: for "this is an example of a huffman tree" the codes of ' ', 'a', 'e'
\* have 3 bits, those of 'f','h','i','m','n','s','t' have 4 bits and those of
\* 'l','o','p','r','u','x' have 5 bits, under every tie-break.
C7_TextCodeLengths ==
    pc = "done" =>
        /\ DOMAIN code_len =
              {32, 97, 101, 102, 104, 105, 109, 110, 115, 116,
               108, 111, 112, 114, 117, 120}
        /\ \A v \in {32, 97, 101} : code_len[v] = 3
        /\ \A v \in {102, 104, 105, 109, 110, 115, 116} : code_len[v] = 4
        /\ \A v \in {108, 111, 112, 114, 117, 120} : code_len[v] = 5

\* the tree of the text is finished
C7_Witness ==
    pc = "done" /\ hdata = TestText /\ Cardinality(DOMAIN code_len) = 16

RECURSIVE SumOver(_, _)
SumOver(f, keys) ==
    IF keys = {} THEN 0
    ELSE LET k == CHOOSE x \in keys : TRUE IN f[k] + SumOver(f, keys \ {k})

\* Kraft's inequality: a prefix-free binary code with the code lengths len
\* exists exactly when the sum of 2^(-len[v]) is at most 1 (scaled by 2^top)
Kraft(len, top) ==
    SumOver([v \in DOMAIN len |-> Pow2(top - len[v])], DOMAIN len) <= Pow2(top)

\* the costs sum(freqs[v] * len[v]) of all prefix-free codes over the symbols
\* of freqs whose codes have at most top bits (a code over n symbols with a
\* longer codeword costs at least as much as one with at most n - 1 bits)
PrefixCodeCosts(freqs, top) ==
    {SumOver([v \in DOMAIN freqs |-> freqs[v] * len[v]], DOMAIN freqs) :
        len \in {l \in [DOMAIN freqs -> 0..top] : Kraft(l, top)}}

\* C8: the generated code is optimal: sum(frequency * codeLength) is the
\* minimum over all prefix-free binary codes for the histogram, whatever the
\* tie-breaks.
C8_Optimal ==
    pc = "done" =>
        \A cost \in PrefixCodeCosts(frequencies, Cardinality(DOMAIN frequencies) - 1) :
            weighted_path_sum(frequencies, code_map) <= cost

\* a finished code over four symbols whose optimum is not the balanced code
C8_Witness ==
    /\ pc = "done"
    /\ Cardinality(DOMAIN code_map) = 4
    /\ \E a \in DOMAIN code_map : Len(code_map[a]) = 1
    /\ \E a \in DOMAIN code_map : Len(code_map[a]) = 3

\* the distinct symbols of an input
SymbolsOf(d) == {d[i] : i \in 1..Len(d)}

\* C16: for a non-empty input with one distinct symbol the tree is a single
\* Leaf whose frequency is the input length, the code of the symbol is the
\* empty sequence, huffman_encode returns no bits and the weighted path length
\* is 0.
C16_DegenerateAlphabet ==
    (pc = "done" /\ Cardinality(SymbolsOf(hdata)) = 1) =>
        /\ tree = [kind |-> "Leaf", value |-> hdata[1], frequency |-> Len(hdata)]
        /\ DOMAIN code_map = {hdata[1]}
        /\ code_map[hdata[1]] = <<>>
        /\ result = <<>>
        /\ weighted_path_sum(frequencies, code_map) = 0

\* the finished run of an input that repeats one symbol three times or more
C16_Witness ==
    /\ pc = "done"
    /\ Len(hdata) >= 3
    /\ Cardinality(SymbolsOf(hdata)) = 1
    /\ tree.kind = "Leaf"

\* the codes of the symbols of d, one after the other
RECURSIVE CodesInOrder(_, _)
CodesInOrder(d, codes) ==
    IF d = <<>> THEN <<>> ELSE codes[Head(d)] \o CodesInOrder(Tail(d), codes)

\* C17: huffman_encode(s) is the concatenation, in input order, of the table
\* code of every s[i]: every symbol of s has an entry in the table, none is
\* left out, and the length is the sum of len(code(s[i])), which is the sum of
\* frequency * codeLength over the symbols.
C17_NoSymbolDropped ==
    pc = "done" =>
        /\ \A i \in 1..Len(hdata) : hdata[i] \in DOMAIN code_map
        /\ result = CodesInOrder(hdata, code_map)
        /\ Len(result) =
              SumOver([i \in 1..Len(hdata) |-> Len(code_map[hdata[i]])], 1..Len(hdata))
        /\ Len(result) =
              SumOver([v \in DOMAIN frequencies |-> frequencies[v] * Len(code_map[v])],
                      DOMAIN frequencies)

\* an encoded input with a repeated symbol and codes of different lengths
C17_Witness ==
    /\ pc = "done"
    /\ \E i \in 1..Len(hdata) : \E j \in 1..Len(hdata) : i # j /\ hdata[i] = hdata[j]
    /\ \E a \in DOMAIN code_map : \E b \in DOMAIN code_map :
          Len(code_map[a]) < Len(code_map[b])
    /\ Len(result) > Len(hdata)

RECURSIVE LeavesOf(_)
LeavesOf(node) ==
    IF node.kind = "Internal" THEN LeavesOf(node.left) \o LeavesOf(node.right)
    ELSE <<node>>

RECURSIVE InternalCount(_)
InternalCount(node) ==
    IF node.kind = "Internal"
    THEN 1 + InternalCount(node.left) + InternalCount(node.right)
    ELSE 0

\* the sum of the frequencies of the leaves of a tree
LeafFrequencySum(node) ==
    SumOver([k \in 1..Len(LeavesOf(node)) |-> LeavesOf(node)[k].frequency],
            1..Len(LeavesOf(node)))

\* C19: in every state of the build loop every distinct symbol of the input is
\* exactly one Leaf of the heap, with its count as frequency; the key of every
\* entry is the sum of the frequencies of its leaves; the keys sum to the input
\* length; each iteration takes one entry off the heap, so with n symbols the
\* heap of n - k entries holds k Internal nodes and the root has n leaves and
\* n - 1 Internal nodes.
C19_BuilderInvariant ==
    /\ [](pc = "build" =>
            /\ \A v \in SymbolsOf(hdata) :
                  SumOver([e \in heap |->
                              Cardinality({k \in 1..Len(LeavesOf(e.node)) :
                                              LeavesOf(e.node)[k].value = v})], heap) = 1
            /\ \A e \in heap : \A k \in 1..Len(LeavesOf(e.node)) :
                  LET leaf == LeavesOf(e.node)[k]
                  IN  /\ leaf.value \in SymbolsOf(hdata)
                      /\ leaf.frequency =
                            Cardinality({i \in 1..Len(hdata) : hdata[i] = leaf.value})
            /\ \A e \in heap : e.key = LeafFrequencySum(e.node)
            /\ SumOver([e \in heap |-> e.key], heap) = Len(hdata)
            /\ Cardinality(heap) + SumOver([e \in heap |-> InternalCount(e.node)], heap)
                  = Cardinality(SymbolsOf(hdata)))
    /\ [](pc = "done" =>
            /\ Len(LeavesOf(tree)) = Cardinality(SymbolsOf(hdata))
            /\ InternalCount(tree) = Cardinality(SymbolsOf(hdata)) - 1)
    /\ [][(pc = "build" /\ pc' = "build" /\ heap' # heap) =>
            Cardinality(heap') = Cardinality(heap) - 1]_vars

\* a heap of two entries, two merges after the start with four symbols, the
\* second merge having taken the parent made by the first
C19_Witness ==
    /\ pc = "build"
    /\ Cardinality(SymbolsOf(hdata)) = 4
    /\ Cardinality(heap) = 2
    /\ \E e \in heap : e.node.kind = "Internal" /\ e.node.right.kind = "Internal"

\* C21: the weighted_path_length of huffman_encode.rs and that of huffman.rs
\* denote the same rational sum(frequency * codeLength) / total: each is the
\* value of its type nearest to that rational.  (The f64 of huffman.rs is the
\* rational rounded once, so the f32 of huffman_encode.rs has to be the f32
\* nearest to num / den.)
C21_SameWeightedPathLength ==
    pc = "done" =>
        weighted_path_length_f32(frequencies, code_map) =
            F32Ratio(weighted_path_length_f64(frequencies, code_map).num,
                     weighted_path_length_f64(frequencies, code_map).den)

-----------------------------------------------------------------------------
(* Properties of the Histogram *)

\* C9: total_count is the sum of the counts and the number of add calls, and
\* add(x) raises the count of x by one and leaves every other count alone.
C9_HistogramConsistent ==
    /\ [](/\ total_count = SumOver(counts, DOMAIN counts)
          /\ total_count = adds)
    /\ [][(last' # last \/ adds' # adds) /\ last'.op = "add" =>
            /\ CountOf(counts', last'.value) = CountOf(counts, last'.value) + 1
            /\ \A v \in Symbols \ {last'.value} :
                  /\ CountOf(counts', v) = CountOf(counts, v)
                  /\ (v \in DOMAIN counts') = (v \in DOMAIN counts)]_vars

\* a histogram built by from_iter and then grown by add calls, with a symbol
\* counted more than once and a symbol never seen
C9_Witness ==
    /\ pc = "histogram"
    /\ last = [op |-> "add", value |-> 1]
    /\ adds >= 3
    /\ CountOf(counts, 1) >= 2
    /\ \E v \in Symbols : v \notin DOMAIN counts
    /\ \E v \in Symbols \ {1} : CountOf(counts, v) >= 1

\* C14: for min <= max, to_csv writes max - min + 1 data rows, the k-th for the
\* symbol min + k - 1 with its stored count (0 when absent) over total_count,
\* and ends without stepping past max, also when max = 255; counts
\* {10: 3, 200: 1} over [0, 255] give 256 rows, two with a non-zero frequency.
C14_FullRangeCsv ==
    /\ (pc = "export" /\ csv.min <= csv.max) =>
        /\ csv.current <= csv.max
        /\ Len(csv.rows) = csv.current - csv.min
    /\ (pc = "exported" /\ csv.min <= csv.max) =>
        /\ csv.end = "ok"
        /\ Len(csv.rows) = csv.max - csv.min + 1
        /\ \A k \in 1..Len(csv.rows) :
              /\ csv.rows[k].pixel = csv.min + k - 1
              /\ csv.rows[k].frequency.num =
                    (IF csv.rows[k].pixel \in DOMAIN counts
                     THEN counts[csv.rows[k].pixel] ELSE 0)
              /\ csv.rows[k].frequency.den = total_count
        /\ (counts = (10 :> 3) @@ (200 :> 1) /\ csv.min = 0 /\ csv.max = 255) =>
              /\ Len(csv.rows) = 256
              /\ {k \in 1..256 : csv.rows[k].frequency.num # 0} = {11, 201}
              /\ csv.rows[11].frequency = [num |-> 3, den |-> 4]
              /\ csv.rows[201].frequency = [num |-> 1, den |-> 4]

\* the histogram {10: 3, 200: 1} has been exported over the whole u8 range
C14_Witness ==
    /\ pc = "exported"
    /\ counts = (10 :> 3) @@ (200 :> 1)
    /\ csv.min = 0
    /\ csv.max = 255
    /\ Len(csv.rows) = 256

-----------------------------------------------------------------------------
(* Properties of the prediction error *)

\* C20: the image reconstructed from the prediction error matrix of an image
\* of width and height >= 1 has the dimensions and the pixel values of the
\* image, so verify_equality_imgs does not panic, and the cap to 0..255 never
\* changes a value.
C20_PredictionRoundTrip ==
    /\ pc # "panic"
    /\ (pc \in {"reconstructed", "equal"}
            /\ original_image.width >= 1 /\ original_image.height >= 1) =>
        /\ reconstructed_image.image.width = original_image.width
        /\ reconstructed_image.image.height = original_image.height
        /\ reconstructed_image.image.px = original_image.px
        /\ ~reconstructed_image.capped

\* a 2 x 2 image found equal to its reconstruction, whose prediction error
\* matrix holds a negative entry and an entry above 255
C20_Witness ==
    /\ pc = "equal"
    /\ original_image.width = 2
    /\ original_image.height = 2
    /\ \E k \in 1..4 : pred_err.elems[k] < 0
    /\ \E k \in 1..4 : pred_err.elems[k] > 255

-----------------------------------------------------------------------------
(* Properties of the padding of the last byte *)

\* C22: padding never invents data: golomb_decode(m, golomb_encode_inner(v, m))
\* returns, and what it returns is a prefix of v: at most Len(v) elements,
\* each equal to the element of v at its position; the zero bits that pad the
\* last byte are not decoded into a further value.
C22_PaddingInventsNothing ==
    pc = "decoded" =>
        /\ decoded.end \in {"ok", "eof_unary", "eof_rem"}
        /\ Len(decoded.out) <= Len(data)
        /\ \A i \in 1..Len(decoded.out) : decoded.out[i] = data[i]

\* a decoded stream of several values whose last byte carries padding bits:
\* every value came back and the decoder stopped inside the padding
C22_Witness ==
    /\ pc = "decoded"
    /\ Len(data) >= 2
    /\ Len(GolombBits(data, m)) % 8 \in 1..7
    /\ decoded.end = "eof_unary"
    /\ decoded.out = data

-----------------------------------------------------------------------------
(* Properties of the 8-bit arithmetic of the matrix encoder *)

\* C23: 8-bit width safety of custom_encode of golomb/encode.rs: for every i32
\* matrix the doubling loop of the u8 parameter m ends without m exceeding
\* 128 (m *= 2 never overflows), and v.unsigned_abs() as u8 is |v| for every
\* entry v (|v| <= 255).
C23_EightBitWidthSafe ==
    /\ pc \notin {"overflow", "hang"}
    /\ pc \in {"encoded", "decoded"} =>
          /\ encoded_image.m <= 128
          /\ \A k \in 1..Len(matrix.elems) :
                /\ Abs(matrix.elems[k]) <= 255
                /\ PixelOf(matrix.elems[k]).value = Abs(matrix.elems[k])

=============================================================================
